---- MODULE Spec2Model ----
(***************************************************************************)
(* State-machine model of the incident dispatcher (core/dispatcher.py)     *)
(* with its collaborators: the domain model (incident/models.py), the      *)
(* validator (core/validator.py), the escalation strategies                *)
(* (core/escalator.py), the default rules (rules/default_rules.py) and the *)
(* incident file of the storage manager (persistence/storage.py).          *)
(*                                                                         *)
(* Encodings.                                                              *)
(*  - Time is counted in whole minutes; datetime.now() is the variable     *)
(*    now, which only the action tick changes.                             *)
(*  - A text typed by the user is a record [lead, core, trail]: lead and   *)
(*    trail count the surrounding whitespace characters, core is the       *)
(*    length of the text between them; str.strip() drops lead and trail.   *)
(*  - Python's None is the string NoneVal where a name is expected.        *)
(*  - A dict keeps insertion order. Incidents enter the table by           *)
(*    increasing id (registration, and loading of a file written from the  *)
(*    table) and replacing a value keeps the key's position, so            *)
(*    incidents.values() is the table read by increasing id.               *)
(*  - A history entry keeps action, incident_id and operator; timestamp    *)
(*    and details are display text derived from them.                      *)
(*  - A backup file is known by the time stamp in its name. The backup    *)
(*    directory is the sequence backups, read by modification time, latest *)
(*    first, which is the order _cleanup_old_backups sorts it into.        *)
(***************************************************************************)
EXTENDS Integers, Sequences, FiniteSets, TLC

VARIABLES incidents,      \* self.incidents: id -> Incident
          pending_queue,  \* self.pending_queue: deque of Incident
          operators,      \* self.operators: name -> Operator
          history,        \* self.history: list of entries
          next_id,        \* self.next_id
          now,            \* datetime.now(), in minutes
          file,           \* the storage manager's incidents.json
          session,        \* the incident_session scope: whether it is open, and
                          \* the calls of storage.save_incidents its exit made
          backups,        \* the backup directory: the backup files, the one
                          \* with the latest modification time first
          ret             \* outcome of the last call, as its caller sees it

vars == <<incidents, pending_queue, operators, history, next_id, now, file,
          session, backups, ret>>

dispatcher == <<incidents, pending_queue, operators, history, next_id>>

(***************************************************************************)
(* Bounds of the model                                                     *)
(***************************************************************************)
MaxIncidents == 2

\* The instants at which the clock is read: they make the ages 1, 10, 15,
\* 16, 30 and 31 minutes occur.
Instants == {0, 1, 16, 26, 31}

NoneVal == "None"

(***************************************************************************)
(* incident/models.py                                                      *)
(***************************************************************************)
Statuses == {"pending", "in_progress", "resolved", "escalated"}

Incident(id, type, priority, description, created_at, assigned_to, status) ==
    [id |-> id, type |-> type, priority |-> priority,
     description |-> description, created_at |-> created_at,
     assigned_to |-> assigned_to, status |-> status]

with_status(self, new_status) ==
    Incident(self.id, self.type, self.priority, self.description,
             self.created_at, self.assigned_to, new_status)

\* Variant: an assignment leaves the incident pending.
with_assignment_still_pending(self, operator) ==
    Incident(self.id, self.type, self.priority, self.description,
             self.created_at, operator, "pending")

\* Variant: an assignment raises the priority.
with_assignment_as_high(self, operator) ==
    Incident(self.id, self.type, "high", self.description,
             self.created_at, operator, "in_progress")

with_assignment(self, operator) ==
    Incident(self.id, self.type, self.priority, self.description,
             self.created_at, operator, "in_progress")

Operator(name, roles, available) ==
    [name |-> name, roles |-> roles, available |-> available]

SeqRange(s) == {s[k] : k \in 1..Len(s)}

\* Variant: any role at all qualifies the operator.
can_handle_any_role(self, incident_type) == self.roles # <<>>

can_handle(self, incident_type) == incident_type \in SeqRange(self.roles)

\* datetime.isoformat() / datetime.fromisoformat(), on whole minutes:
\* the text "HH:MM" is the pair <<hours, minutes>>.
\* Variant: the text keeps the hours only.
isoformat_hours_only(t) == <<t \div 60, 0>>

isoformat(t) == <<t \div 60, t % 60>>

fromisoformat(s) == s[1] * 60 + s[2]

to_dict(self) ==
    [id |-> self.id, type |-> self.type, priority |-> self.priority,
     description |-> self.description,
     created_at |-> isoformat(self.created_at),
     assigned_to |-> self.assigned_to, status |-> self.status]

from_dict(data) ==
    Incident(data.id, data.type, data.priority, data.description,
             fromisoformat(data.created_at), data.assigned_to, data.status)

(***************************************************************************)
(* incident/filters.py                                                     *)
(***************************************************************************)
\* re.search(pattern, description) for the one pattern of the model: "."
\* is found in every text that has a character.
regex_search(pattern, description) ==
    pattern = "." /\ description.lead + description.core + description.trail > 0

by_text(list, pattern) ==
    SelectSeq(list, LAMBDA inc : regex_search(pattern, inc.description))

by_type(list, incident_type) ==
    SelectSeq(list, LAMBDA inc : inc.type = incident_type)

by_operator(list, operator) ==
    SelectSeq(list, LAMBDA inc : inc.assigned_to = operator)

by_status(list, status) ==
    SelectSeq(list, LAMBDA inc : inc.status = status)

\* by_date_range with start_date alone: the incidents not created before it.
by_date_range(list, start_date) ==
    SelectSeq(list, LAMBDA inc : ~(inc.created_at < start_date))

(***************************************************************************)
(* core/validator.py                                                       *)
(***************************************************************************)
VALID_TYPES == {"infrastructure", "security", "application"}
VALID_PRIORITIES == {"high", "medium", "low"}

MinDescription == 5
MaxDescription == 500

Text(lead, core, trail) == [lead |-> lead, core |-> core, trail |-> trail]

strip(s) == Text(0, s.core, 0)

len(s) == s.lead + s.core + s.trail

validate_type(incident_type) == incident_type \in VALID_TYPES

validate_priority(priority) == priority \in VALID_PRIORITIES

\* Variant: the length is taken before trimming.
validate_description_untrimmed(description) ==
    /\ MinDescription <= len(description)
    /\ len(description) <= MaxDescription

\* Variant: the two limits are excluded.
validate_description_exclusive(description) ==
    /\ MinDescription < len(strip(description))
    /\ len(strip(description)) < MaxDescription

validate_description(description) ==
    /\ MinDescription <= len(strip(description))
    /\ len(strip(description)) <= MaxDescription

MsgType == "Tipo invalido. Debe ser uno de: ..."
MsgPriority == "Prioridad invalida. Debe ser una de: ..."
MsgDescription == "Descripcion debe tener entre 5 y 500 caracteres"
MsgTypeInput == "Tipo de incidente invalido"

\* Variant: the checks stop at the first field that fails.
validate_all_incident_data_first_only(incident_type, priority, description) ==
    IF ~validate_type(incident_type) THEN <<MsgType>>
    ELSE IF ~validate_priority(priority) THEN <<MsgPriority>>
    ELSE IF ~validate_description(description) THEN <<MsgDescription>>
    ELSE <<>>

validate_all_incident_data(incident_type, priority, description) ==
    (IF validate_type(incident_type) THEN <<>> ELSE <<MsgType>>)
    \o (IF validate_priority(priority) THEN <<>> ELSE <<MsgPriority>>)
    \o (IF validate_description(description) THEN <<>> ELSE <<MsgDescription>>)

\* str.strip() of a type text is empty: the texts of whitespace only.
BlankTexts == {"", " "}

\* The predicate handed to @validate_input on register_incident.
type_input_ok(x) == x \notin BlankTexts

(***************************************************************************)
(* core/escalator.py                                                       *)
(***************************************************************************)
TimeThreshold == 30
HighThreshold == 15

Open == {"pending", "in_progress"}

\* Variant: only pending incidents age.
TimeBasedEscalation_pending_only(incident, t) ==
    IF incident.status # "pending" THEN FALSE
    ELSE t - incident.created_at > TimeThreshold

TimeBasedEscalation(incident, t) ==
    IF incident.status \notin Open THEN FALSE
    ELSE t - incident.created_at > TimeThreshold

\* Variant: the 15 minutes are reached, not exceeded.
PriorityBasedEscalation_inclusive(incident, t) ==
    IF incident.priority # "high" THEN FALSE
    ELSE IF incident.status \notin Open THEN FALSE
    ELSE t - incident.created_at >= HighThreshold

PriorityBasedEscalation(incident, t) ==
    IF incident.priority # "high" THEN FALSE
    ELSE IF incident.status \notin Open THEN FALSE
    ELSE t - incident.created_at > HighThreshold

CompositeEscalation(incident, t) ==
    TimeBasedEscalation(incident, t) \/ PriorityBasedEscalation(incident, t)

find_escalatable_incidents(list, t) ==
    SelectSeq(list, LAMBDA inc : CompositeEscalation(inc, t))

escalate_incident(incident) == with_status(incident, "escalated")

(***************************************************************************)
(* rules/default_rules.py                                                  *)
(***************************************************************************)
get_default_rules ==
    [infrastructure |-> {"admin", "network_engineer", "system_admin"},
     security |-> {"security_analyst", "admin", "incident_responder"},
     application |-> {"developer", "app_support", "admin"}]

get_default_operators ==
    << Operator("carlos", <<"admin", "system_admin">>, TRUE),
       Operator("ana", <<"security_analyst", "incident_responder">>, TRUE),
       Operator("miguel", <<"developer", "app_support">>, TRUE),
       Operator("sofia", <<"network_engineer", "system_admin">>, TRUE),
       Operator("admin", <<"admin", "security_analyst", "developer",
                           "network_engineer">>, TRUE) >>

DefaultOperators ==
    [n \in {get_default_operators[k].name : k \in 1..Len(get_default_operators)} |->
        CHOOSE o \in SeqRange(get_default_operators) : o.name = n]

(***************************************************************************)
(* persistence/storage.py: the incident file                               *)
(***************************************************************************)
\* The file: whether it exists, whether its text is JSON, and the records
\* under its 'incidents' key.
NoFile == [exists |-> FALSE, valid |-> TRUE, incidents |-> <<>>]

\* save_incidents: json.dump of {'timestamp', 'incidents'} over the old file.
save_incidents(incidents_data) ==
    [exists |-> TRUE, valid |-> TRUE, incidents |-> incidents_data]

\* load_incidents: [] when there is no file and when json.load fails
\* (JSONDecodeError, caught), else data.get('incidents', []).
load_incidents(f) ==
    IF ~f.exists THEN <<>>
    ELSE IF ~f.valid THEN <<>>
    ELSE f.incidents

KeepCount == 5

\* Variant: the oldest backups are kept.
cleanup_old_backups_keep_oldest(backup_files) ==
    IF Len(backup_files) <= KeepCount THEN backup_files
    ELSE SubSeq(backup_files, Len(backup_files) - KeepCount + 1, Len(backup_files))

\* _cleanup_old_backups: of the files sorted by modification time, latest
\* first, all after the first keep_count are deleted.
cleanup_old_backups(backup_files) ==
    IF Len(backup_files) <= KeepCount THEN backup_files
    ELSE SubSeq(backup_files, 1, KeepCount)

\* _create_backup at time t: shutil.copy2 of the file to
\* incidents_backup_<t>.json, over a backup of that name if there is one.
\* copy2 gives the copy the modification time of the file, which was
\* written after every file the older backups were copied from.
create_backup(backup_files, t) ==
    cleanup_old_backups(<<[name |-> t]>>
                        \o SelectSeq(backup_files, LAMBDA b : b.name # t))

\* The backup step of save_incidents: only when the file exists.
backup_step(backup_files, f, t) ==
    IF f.exists THEN create_backup(backup_files, t) ELSE backup_files

(***************************************************************************)
(* core/dispatcher.py: helpers                                             *)
(***************************************************************************)
RECURSIVE SortedSeq(_)
SortedSeq(S) ==
    IF S = {} THEN <<>>
    ELSE LET m == CHOOSE x \in S : \A y \in S : x <= y
         IN <<m>> \o SortedSeq(S \ {m})

\* list(self.incidents.values())
values(table) == LET ids == SortedSeq(DOMAIN table)
                 IN [k \in 1..Len(ids) |-> table[ids[k]]]

get_incidents_by_status(table, status) ==
    SelectSeq(values(table), LAMBDA inc : inc.status = status)

\* Variant: every incident is appended at the back.
add_to_queue_back(queue, incident) == Append(queue, incident)

\* Variant: only high-priority incidents are queued.
add_to_queue_high_only(queue, incident) ==
    IF incident.priority = "high" THEN <<incident>> \o queue ELSE queue

add_to_queue(queue, incident) ==
    IF incident.priority = "high"
    THEN <<incident>> \o queue
    ELSE Append(queue, incident)

\* Variant: the head of the queue is taken out (popleft).
remove_from_queue_head(queue, incident_id) ==
    IF queue = <<>> THEN queue ELSE Tail(queue)

\* deque(inc for inc in self.pending_queue if inc.id != incident_id)
remove_from_queue(queue, incident_id) ==
    SelectSeq(queue, LAMBDA inc : inc.id # incident_id)

\* list(self.pending_queue)
get_pending_incidents(queue) == [k \in 1..Len(queue) |-> queue[k]]

put(table, id, incident) ==
    [k \in DOMAIN table \cup {id} |-> IF k = id THEN incident ELSE table[k]]

Entry(action, incident_id, operator) ==
    [action |-> action, incident_id |-> incident_id, operator |-> operator]

\* What a call hands to its caller: a returned value (None, True, False or
\* an int) or a raised ValueError with its messages.
PyNone == [kind |-> "None", n |-> 0]
PyTrue == [kind |-> "True", n |-> 0]
PyFalse == [kind |-> "False", n |-> 0]
PyInt(n) == [kind |-> "int", n |-> n]
PyList(items) == [kind |-> "list", n |-> Len(items), items |-> items]
PyDict(items) == [kind |-> "dict", n |-> 0, items |-> items]

Returned(value) == [outcome |-> "returned", value |-> value, errors |-> <<>>]
Raised(errors) == [outcome |-> "raised", value |-> PyNone, errors |-> errors]

\* Variant: the loaded ids do not move the counter.
max_keep(a, b) == a

max(a, b) == IF a >= b THEN a ELSE b

\* Whether from_dict can convert the record: datetime.fromisoformat raises
\* ValueError on a created_at text that is no ISO date (here: the empty text).
convertible(data) == Len(data.created_at) = 2

\* Variant: every loaded incident is queued, whatever its status.
RECURSIVE load_loop_queue_all(_, _)
load_loop_queue_all(data, st) ==
    IF data = <<>> THEN st
    ELSE LET incident == from_dict(Head(data))
         IN load_loop_queue_all(Tail(data),
               [incidents |-> put(st.incidents, incident.id, incident),
                pending_queue |-> add_to_queue(st.pending_queue, incident),
                next_id |-> max(st.next_id, incident.id + 1)])

\* Variant: every loaded pending incident goes to the back of the queue.
RECURSIVE load_loop_queue_back(_, _)
load_loop_queue_back(data, st) ==
    IF data = <<>> THEN st
    ELSE IF ~convertible(Head(data)) THEN st
    ELSE LET incident == from_dict(Head(data))
         IN load_loop_queue_back(Tail(data),
               [incidents |-> put(st.incidents, incident.id, incident),
                pending_queue |-> IF incident.status = "pending"
                                  THEN Append(st.pending_queue, incident)
                                  ELSE st.pending_queue,
                next_id |-> max(st.next_id, incident.id + 1)])

\* The loop of _load_persisted_data over the records read, from state st.
RECURSIVE load_loop(_, _)
load_loop(data, st) ==
    IF data = <<>> THEN st
    ELSE IF ~convertible(Head(data))
    THEN \* from_dict raises: the loop is left, the except of
         \* _load_persisted_data logs a warning, what was loaded stays
         st
    ELSE LET incident == from_dict(Head(data))
         IN load_loop(Tail(data),
               [incidents |-> put(st.incidents, incident.id, incident),
                pending_queue |-> IF incident.status = "pending"
                                  THEN add_to_queue(st.pending_queue, incident)
                                  ELSE st.pending_queue,
                next_id |-> max(st.next_id, incident.id + 1)])

EmptyTable == [k \in {} |-> k]

load_persisted_data(f) ==
    load_loop(load_incidents(f),
              [incidents |-> EmptyTable, pending_queue |-> <<>>, next_id |-> 1])

\* Variant: the newest entry is put at the head of the history.
RECURSIVE escalate_loop_newest_first(_, _)
escalate_loop_newest_first(list, st) ==
    IF list = <<>> THEN st
    ELSE LET incident == Head(list)
         IN escalate_loop_newest_first(Tail(list),
               [incidents |-> put(st.incidents, incident.id,
                                  escalate_incident(incident)),
                pending_queue |-> remove_from_queue(st.pending_queue, incident.id),
                history |-> <<Entry("escalated", incident.id, NoneVal)>>
                            \o st.history,
                escalated_count |-> st.escalated_count + 1])

\* The loop of auto_escalate_incidents over the incidents to escalate.
RECURSIVE escalate_loop(_, _)
escalate_loop(list, st) ==
    IF list = <<>> THEN st
    ELSE LET incident == Head(list)
         IN escalate_loop(Tail(list),
               [incidents |-> put(st.incidents, incident.id,
                                  escalate_incident(incident)),
                pending_queue |-> remove_from_queue(st.pending_queue, incident.id),
                history |-> Append(st.history,
                                   Entry("escalated", incident.id, NoneVal)),
                escalated_count |-> st.escalated_count + 1])

(***************************************************************************)
(* Operator names                                                          *)
(***************************************************************************)
\* Operator names: the stripped text, with its length and whether all its
\* characters are letters, digits or whitespace.
Name(lead, word, trail) == [lead |-> lead, word |-> word, trail |-> trail]
WordLength == [eva |-> 3, ana |-> 3, bob |-> 3, x |-> 1, a_b |-> 3]
WordCharsOk == [eva |-> TRUE, ana |-> TRUE, bob |-> TRUE, x |-> TRUE,
                a_b |-> FALSE]

MinName == 2
MaxName == 50

\* re.match(r'^[a-zA-Z0-9\s]{2,50}$', name.strip())
validate_operator_name(name) ==
    /\ WordCharsOk[name.word]
    /\ MinName <= WordLength[name.word]
    /\ WordLength[name.word] <= MaxName

(***************************************************************************)
(* core/dispatcher.py: the operations                                      *)
(***************************************************************************)
Init ==
    /\ incidents = EmptyTable
    /\ pending_queue = <<>>
    /\ operators = DefaultOperators
    /\ history = <<>>
    /\ next_id = 1
    /\ now = 0
    /\ file = NoFile
    /\ session = [open |-> FALSE, saves |-> 0]
    /\ backups = <<>>
    /\ ret = Returned(PyNone)

\* IncidentDispatcher(storage): a new dispatcher over the same storage.
initialize_system ==
    LET st == load_persisted_data(file)
    IN /\ incidents' = st.incidents
       /\ pending_queue' = st.pending_queue
       /\ next_id' = st.next_id
       /\ operators' = DefaultOperators
       /\ history' = <<>>
       /\ ret' = Returned(PyNone)
       /\ UNCHANGED <<now, file, session, backups>>

\* _save_data, the flush at the end of incident_session.
save_data ==
    /\ file' = save_incidents([k \in 1..Len(values(incidents)) |->
                                  to_dict(values(incidents)[k])])
    /\ backups' = backup_step(backups, file, now)
    /\ ret' = Returned(PyNone)
    /\ UNCHANGED <<dispatcher, now, session>>

\* [incident.to_dict() for incident in self.incidents.values()]
incidents_data(table) ==
    [k \in 1..Len(values(table)) |-> to_dict(values(table)[k])]

\* with dispatcher.incident_session(): the scope is entered.
session_enter ==
    /\ ~session.open
    /\ session' = [open |-> TRUE, saves |-> 0]
    /\ ret' = Returned(PyNone)
    /\ UNCHANGED <<dispatcher, now, file, backups>>

\* An error raised by a call inside the scope is on its way out of it.
raising == session.open /\ ret.outcome = "raised"

\* Variant: the flush is made on a normal exit only.
session_exit_flush_on_success ==
    /\ session.open
    /\ file' = IF raising THEN file ELSE save_incidents(incidents_data(incidents))
    /\ backups' = IF raising THEN backups ELSE backup_step(backups, file, now)
    /\ session' = [open |-> FALSE,
                   saves |-> IF raising THEN session.saves ELSE session.saves + 1]
    /\ ret' = IF raising THEN ret ELSE Returned(PyNone)
    /\ UNCHANGED <<dispatcher, now>>

\* The scope is left, normally or by the error raised inside it: the except
\* clause re-raises, and the finally clause runs _save_data before the error
\* reaches the caller.
session_exit ==
    /\ session.open
    /\ file' = save_incidents(incidents_data(incidents))
    /\ backups' = backup_step(backups, file, now)
    /\ session' = [open |-> FALSE, saves |-> session.saves + 1]
    /\ ret' = IF raising THEN ret ELSE Returned(PyNone)
    /\ UNCHANGED <<dispatcher, now>>

\* The file after a write that failed: untouched when open() failed, cut
\* short (no longer JSON) when the failure came after open() truncated it.
failed_write(f, truncated) ==
    IF truncated THEN [exists |-> TRUE, valid |-> FALSE, incidents |-> <<>>]
    ELSE f

\* The scope is left while the storage cannot write: save_incidents makes
\* its backup, fails on the file and raises; _save_data catches the error
\* and logs it, so the exit goes on as after a successful flush.
session_exit_storage_fails(truncated) ==
    /\ session.open
    /\ file' = failed_write(file, truncated)
    /\ backups' = backup_step(backups, file, now)
    /\ session' = [open |-> FALSE, saves |-> session.saves + 1]
    /\ ret' = IF raising THEN ret ELSE Returned(PyNone)
    /\ UNCHANGED <<dispatcher, now>>

register_incident(incident_type, priority, description) ==
    LET errors == validate_all_incident_data(incident_type, priority, description)
        incident == Incident(next_id, incident_type, priority,
                             strip(description), now, NoneVal, "pending")
    IN IF ~type_input_ok(incident_type)
       THEN \* @validate_input raises before the body runs
            /\ ret' = Raised(<<MsgTypeInput>>)
            /\ UNCHANGED <<dispatcher, now, file, session, backups>>
       ELSE IF errors # <<>>
       THEN \* the ValueError is caught by the body's own except: return None
            /\ ret' = Returned(PyNone)
            /\ UNCHANGED <<dispatcher, now, file, session, backups>>
       ELSE /\ next_id <= MaxIncidents
            /\ incidents' = put(incidents, incident.id, incident)
            /\ pending_queue' = add_to_queue(pending_queue, incident)
            /\ next_id' = next_id + 1
            /\ history' = Append(history, Entry("created", incident.id, NoneVal))
            /\ ret' = Returned(PyInt(incident.id))
            /\ UNCHANGED <<operators, now, file, session, backups>>

\* Variant: the incident's status is not looked at.
assign_incident_any_status(incident_id, operator_name) ==
    LET fail == /\ ret' = Returned(PyFalse)
                /\ UNCHANGED <<dispatcher, now, file, session, backups>>
    IN IF incident_id \notin DOMAIN incidents THEN fail
       ELSE IF operator_name \notin DOMAIN operators THEN fail
       ELSE IF ~operators[operator_name].available THEN fail
       ELSE IF ~can_handle(operators[operator_name], incidents[incident_id].type)
       THEN fail
       ELSE /\ incidents' = put(incidents, incident_id,
                                with_assignment(incidents[incident_id], operator_name))
            /\ pending_queue' = remove_from_queue(pending_queue, incident_id)
            /\ history' = Append(history, Entry("assigned", incident_id, operator_name))
            /\ ret' = Returned(PyTrue)
            /\ UNCHANGED <<operators, next_id, now, file, session, backups>>

\* Variant: an assignment makes the operator unavailable.
assign_incident_engages(incident_id, operator_name) ==
    LET fail == /\ ret' = Returned(PyFalse)
                /\ UNCHANGED <<dispatcher, now, file, session, backups>>
    IN IF incident_id \notin DOMAIN incidents THEN fail
       ELSE IF incidents[incident_id].status # "pending" THEN fail
       ELSE IF operator_name \notin DOMAIN operators THEN fail
       ELSE IF ~operators[operator_name].available THEN fail
       ELSE IF ~can_handle(operators[operator_name], incidents[incident_id].type)
       THEN fail
       ELSE /\ incidents' = put(incidents, incident_id,
                                with_assignment(incidents[incident_id], operator_name))
            /\ pending_queue' = remove_from_queue(pending_queue, incident_id)
            /\ history' = Append(history, Entry("assigned", incident_id, operator_name))
            /\ operators' = [operators EXCEPT ![operator_name].available = FALSE]
            /\ ret' = Returned(PyTrue)
            /\ UNCHANGED <<next_id, now, file, session, backups>>

assign_incident(incident_id, operator_name) ==
    LET fail == /\ ret' = Returned(PyFalse)
                /\ UNCHANGED <<dispatcher, now, file, session, backups>>
    IN IF incident_id \notin DOMAIN incidents THEN fail
       ELSE IF incidents[incident_id].status # "pending" THEN fail
       ELSE IF operator_name \notin DOMAIN operators THEN fail
       ELSE IF ~operators[operator_name].available THEN fail
       ELSE IF ~can_handle(operators[operator_name], incidents[incident_id].type)
       THEN fail
       ELSE /\ incidents' = put(incidents, incident_id,
                                with_assignment(incidents[incident_id], operator_name))
            /\ pending_queue' = remove_from_queue(pending_queue, incident_id)
            /\ history' = Append(history, Entry("assigned", incident_id, operator_name))
            /\ ret' = Returned(PyTrue)
            /\ UNCHANGED <<operators, next_id, now, file, session, backups>>

\* Variant: only an already resolved incident is refused.
resolve_incident_unless_resolved(incident_id) ==
    LET fail == /\ ret' = Returned(PyFalse)
                /\ UNCHANGED <<dispatcher, now, file, session, backups>>
    IN IF incident_id \notin DOMAIN incidents THEN fail
       ELSE IF incidents[incident_id].status = "resolved" THEN fail
       ELSE /\ incidents' = put(incidents, incident_id,
                                with_status(incidents[incident_id], "resolved"))
            /\ pending_queue' = remove_from_queue(pending_queue, incident_id)
            /\ history' = Append(history,
                                 Entry("resolved", incident_id,
                                       incidents[incident_id].assigned_to))
            /\ ret' = Returned(PyTrue)
            /\ UNCHANGED <<operators, next_id, now, file, session, backups>>

\* Variant: an unknown incident id raises KeyError.
resolve_incident_unknown_raises(incident_id) ==
    LET fail == /\ ret' = Returned(PyFalse)
                /\ UNCHANGED <<dispatcher, now, file, session, backups>>
    IN IF incident_id \notin DOMAIN incidents
       THEN /\ ret' = Raised(<<"KeyError">>)
            /\ UNCHANGED <<dispatcher, now, file, session, backups>>
       ELSE IF incidents[incident_id].status \notin {"pending", "in_progress"} THEN fail
       ELSE /\ incidents' = put(incidents, incident_id,
                                with_status(incidents[incident_id], "resolved"))
            /\ pending_queue' = remove_from_queue(pending_queue, incident_id)
            /\ history' = Append(history,
                                 Entry("resolved", incident_id,
                                       incidents[incident_id].assigned_to))
            /\ ret' = Returned(PyTrue)
            /\ UNCHANGED <<operators, next_id, now, file, session, backups>>

resolve_incident(incident_id) ==
    LET fail == /\ ret' = Returned(PyFalse)
                /\ UNCHANGED <<dispatcher, now, file, session, backups>>
    IN IF incident_id \notin DOMAIN incidents THEN fail
       ELSE IF incidents[incident_id].status \notin {"pending", "in_progress"} THEN fail
       ELSE /\ incidents' = put(incidents, incident_id,
                                with_status(incidents[incident_id], "resolved"))
            /\ pending_queue' = remove_from_queue(pending_queue, incident_id)
            /\ history' = Append(history,
                                 Entry("resolved", incident_id,
                                       incidents[incident_id].assigned_to))
            /\ ret' = Returned(PyTrue)
            /\ UNCHANGED <<operators, next_id, now, file, session, backups>>

auto_escalate_incidents ==
    LET pending_incidents == get_incidents_by_status(incidents, "pending")
                             \o get_incidents_by_status(incidents, "in_progress")
        st == escalate_loop(find_escalatable_incidents(pending_incidents, now),
                            [incidents |-> incidents,
                             pending_queue |-> pending_queue,
                             history |-> history, escalated_count |-> 0])
    IN /\ incidents' = st.incidents
       /\ pending_queue' = st.pending_queue
       /\ history' = st.history
       /\ ret' = Returned(PyInt(st.escalated_count))
       /\ UNCHANGED <<operators, next_id, now, file, session, backups>>

add_operator(name, roles) ==
    IF ~validate_operator_name(name)
    THEN /\ ret' = Returned(PyFalse)
         /\ UNCHANGED <<dispatcher, now, file, session, backups>>
    ELSE /\ operators' = [n \in DOMAIN operators \cup {name.word} |->
                             IF n = name.word THEN Operator(name.word, roles, TRUE)
                             ELSE operators[n]]
         /\ ret' = Returned(PyTrue)
         /\ UNCHANGED <<incidents, pending_queue, history, next_id, now, file, session, backups>>

\* The names dispatcher.py imports from datetime: datetime alone. timedelta
\* is not among them, so evaluating it raises NameError.
timedelta_imported == FALSE

\* timedelta(days=days_back), in minutes.
timedelta(days) == days * 24 * 60

DefaultDaysBack == 30

\* The list search_incidents hands back. The filters are generators: nothing
\* runs before list(incidents), and the NameError of the date step is caught
\* by the method's own except, which returns [].
search_result(table, t, text, incident_type, operator, status, days_back) ==
    LET all == values(table)
        f1 == IF text # "" THEN by_text(all, text) ELSE all
        f2 == IF incident_type # "" THEN by_type(f1, incident_type) ELSE f1
        f3 == IF operator # "" THEN by_operator(f2, operator) ELSE f2
        f4 == IF status # "" THEN by_status(f3, status) ELSE f3
    IN IF days_back > 0
       THEN IF timedelta_imported
            THEN by_date_range(f4, t - timedelta(days_back))
            ELSE <<>>
       ELSE f4

search_incidents(text, incident_type, operator, status, days_back) ==
    /\ ret' = Returned(PyList(search_result(incidents, now, text, incident_type,
                                            operator, status, days_back)))
    /\ UNCHANGED <<dispatcher, now, file, session, backups>>

\* list[start:] of Python, for any integer start.
slice_from(list, start) ==
    LET n == Len(list)
        first == IF start < 0 THEN (IF n + start < 0 THEN 0 ELSE n + start)
                 ELSE (IF start > n THEN n ELSE start)
    IN SubSeq(list, first + 1, n)

\* self.history[-limit:]
get_history(limit) ==
    /\ ret' = Returned(PyList(slice_from(history, 0 - limit)))
    /\ UNCHANGED <<dispatcher, now, file, session, backups>>

\* The keys of the statistics: "status_pending" is <<"status", "pending">>,
\* "operators_total" is <<"operators", "total">>, "total" is <<"total", "">>.
StatKey(prefix, value) == <<prefix, value>>

\* stats[key] += 1 on a defaultdict(int): a missing key starts at 0.
increment(stats, key) ==
    [k \in DOMAIN stats \cup {key} |->
        IF k = key THEN (IF key \in DOMAIN stats THEN stats[key] ELSE 0) + 1
        ELSE stats[k]]

count_incident(stats, incident) ==
    increment(increment(increment(increment(stats,
        StatKey("total", "")),
        StatKey("status", incident.status)),
        StatKey("priority", incident.priority)),
        StatKey("type", incident.type))

\* Variant: incidents that are resolved or escalated are not counted.
RECURSIVE stats_loop_open_only(_, _)
stats_loop_open_only(list, stats) ==
    IF list = <<>> THEN stats
    ELSE stats_loop_open_only(Tail(list),
            IF Head(list).status \in {"pending", "in_progress"}
            THEN count_incident(stats, Head(list))
            ELSE stats)

\* The loop of get_statistics over self.incidents.values().
RECURSIVE stats_loop(_, _)
stats_loop(list, stats) ==
    IF list = <<>> THEN stats
    ELSE stats_loop(Tail(list), count_incident(stats, Head(list)))

\* stats[key] = value
set_stat(stats, key, value) ==
    [k \in DOMAIN stats \cup {key} |-> IF k = key THEN value ELSE stats[k]]

statistics(table, ops) ==
    set_stat(set_stat(stats_loop(values(table), EmptyTable),
                      StatKey("operators", "total"), Cardinality(DOMAIN ops)),
             StatKey("operators", "available"),
             Cardinality({n \in DOMAIN ops : ops[n].available}))

get_statistics ==
    /\ ret' = Returned(PyDict(statistics(incidents, operators)))
    /\ UNCHANGED <<dispatcher, now, file, session, backups>>

\* The file is damaged outside the program: its text is no longer JSON.
garble_file ==
    /\ file.exists
    /\ file.valid
    /\ file' = [file EXCEPT !.valid = FALSE]
    /\ UNCHANGED <<dispatcher, now, session, backups, ret>>

\* The file is edited outside the program: record k loses its created_at.
damage_record(k) ==
    /\ file.exists
    /\ file.valid
    /\ k \in 1..Len(file.incidents)
    /\ convertible(file.incidents[k])
    /\ file' = [file EXCEPT !.incidents[k].created_at = <<>>]
    /\ UNCHANGED <<dispatcher, now, session, backups, ret>>

\* Time passes between two calls.
\* A caller asks the validator for the errors of three arguments.
validate_all(incident_type, priority, description) ==
    /\ ret' = Returned(PyList(validate_all_incident_data(incident_type, priority,
                                                         description)))
    /\ UNCHANGED <<dispatcher, now, file, session, backups>>

tick(t) ==
    /\ t > now
    /\ now' = t
    /\ UNCHANGED <<dispatcher, file, session, backups, ret>>

(***************************************************************************)
(* Inputs of the calls, and the specifications                             *)
(***************************************************************************)
IdInputs == 1..(MaxIncidents + 1)
OperatorInputs == {"ana", "eva", "nobody"}
NameInputs == {Name(1, "eva", 0), Name(0, "x", 0)}
RolesInputs == {<<"security">>}

\* The life of the incidents of one dispatcher: a type the added operator
\* handles and one nobody handles, and a clock that makes every open incident
\* old enough to be escalated.
TypeInputs == {"security", "application", "bogus"}
PriorityInputs == {"low", "urgent"}
DescriptionInputs == {Text(1, 5, 0)}
CoarseInstants == {0, 31}

Next ==
    \/ \E t \in TypeInputs, p \in PriorityInputs, d \in DescriptionInputs :
          register_incident(t, p, d)
    \/ \E i \in IdInputs, n \in OperatorInputs : assign_incident(i, n)
    \/ \E i \in IdInputs : resolve_incident(i)
    \/ auto_escalate_incidents
    \/ \E name \in NameInputs, roles \in RolesInputs : add_operator(name, roles)
    \/ \E t \in CoarseInstants : tick(t)

Spec == Init /\ [][Next]_vars

\* The escalation rule: it reads one incident at a time, so the table holds
\* one incident fewer than the bound, of either tier and in any status, read
\* at the instants around the two thresholds.
EscalationPriorityInputs == {"high", "low"}

NextEscalation ==
    \/ \E p \in EscalationPriorityInputs :
          /\ next_id < MaxIncidents
          /\ register_incident("security", p, Text(0, 5, 0))
    \/ \E i \in IdInputs : assign_incident(i, "eva")
    \/ \E i \in IdInputs : resolve_incident(i)
    \/ auto_escalate_incidents
    \/ add_operator(Name(0, "eva", 0), <<"security">>)
    \/ \E t \in Instants : tick(t)

SpecEscalation == Init /\ [][NextEscalation]_vars

\* Registration alone, over every kind of valid and invalid argument.
RegTypeInputs == {"security", "application", "bogus", "", " "}
RegPriorityInputs == {"high", "low", "urgent"}
RegDescriptionInputs ==
    {Text(0, 4, 0), Text(1, 4, 1), Text(0, 5, 0), Text(1, 5, 1),
     Text(0, 500, 0), Text(1, 500, 1), Text(0, 501, 0), Text(3, 0, 3)}

NextRegister ==
    \E t \in RegTypeInputs, p \in RegPriorityInputs, d \in RegDescriptionInputs :
       register_incident(t, p, d)

SpecRegister == Init /\ [][NextRegister]_vars

\* The validator called on its own, between registrations.
ValTypeInputs == {"security", "bogus", ""}
ValPriorityInputs == {"low", "urgent"}
ValDescriptionInputs ==
    {Text(0, 4, 0), Text(1, 5, 1), Text(0, 6, 0), Text(1, 500, 1), Text(0, 501, 0)}

NextValidator ==
    \/ \E t \in ValTypeInputs, p \in ValPriorityInputs, d \in ValDescriptionInputs :
          register_incident(t, p, d)
    \/ \E t \in ValTypeInputs, p \in ValPriorityInputs, d \in ValDescriptionInputs :
          validate_all(t, p, d)

SpecValidator == Init /\ [][NextValidator]_vars

\* Dispatchers that follow one another over the same storage.
StoredPriorityInputs == {"high", "low"}

NextStored ==
    \/ \E p \in StoredPriorityInputs : register_incident("security", p, Text(0, 5, 0))
    \/ \E i \in IdInputs : resolve_incident(i)
    \/ auto_escalate_incidents
    \/ \E t \in CoarseInstants : tick(t)
    \/ save_data
    \/ initialize_system

SpecStored == Init /\ [][NextStored]_vars

\* The pending queue and the table across dispatchers that follow one another
\* over the same storage, with incidents saved while pending, assigned or
\* resolved.
NextQueue ==
    \/ register_incident("security", "low", Text(0, 5, 0))
    \/ \E i \in IdInputs : assign_incident(i, "eva")
    \/ \E i \in IdInputs : resolve_incident(i)
    \/ add_operator(Name(0, "eva", 0), <<"security">>)
    \/ save_data
    \/ initialize_system

SpecQueue == Init /\ [][NextQueue]_vars

\* Searching and reading the history of a dispatcher whose incidents are of
\* two types, pending or resolved, and up to two days old.
SearchTextInputs == {"", "."}
SearchTypeInputs == {"", "security", "application"}
SearchOperatorInputs == {"", "ana"}
SearchStatusInputs == {"", "pending", "resolved"}
DaysBackInputs == {-1, 0, 1, DefaultDaysBack}
LimitInputs == 0..3
SearchInstants == {0, 2 * 24 * 60}

NextSearch ==
    \/ \E t \in {"security", "application"} :
          register_incident(t, "low", Text(0, 5, 0))
    \/ \E i \in IdInputs : resolve_incident(i)
    \/ \E t \in SearchInstants : tick(t)
    \/ \E text \in SearchTextInputs, t \in SearchTypeInputs,
          o \in SearchOperatorInputs, s \in SearchStatusInputs,
          d \in DaysBackInputs : search_incidents(text, t, o, s, d)
    \/ \E limit \in LimitInputs : get_history(limit)

SpecSearch == Init /\ [][NextSearch]_vars

\* The operator registry alone: new names, a default operator's name, names
\* with surrounding blanks, a name too short and one with a character that
\* is not allowed, with no role, one role and two roles.
OpNameInputs ==
    {Name(0, "eva", 0), Name(1, "eva", 1), Name(0, "ana", 0), Name(0, "bob", 0),
     Name(0, "x", 0), Name(0, "a_b", 0)}
OpRolesInputs == {<<>>, <<"security">>, <<"security", "application">>}

NextOperators ==
    \E name \in OpNameInputs, roles \in OpRolesInputs : add_operator(name, roles)

SpecOperators == Init /\ [][NextOperators]_vars

\* Calls made inside and outside incident_session scopes; a registration
\* with a blank type raises inside the scope.
SessionTypeInputs == {"security", ""}

NextSession ==
    \/ session_enter
    \/ session_exit
    \/ /\ ~raising
       /\ \E t \in SessionTypeInputs : register_incident(t, "low", Text(0, 5, 0))
    \/ /\ ~raising
       /\ \E i \in IdInputs : resolve_incident(i)

SpecSession == Init /\ [][NextSession]_vars

\* Scopes over a storage whose writes may fail.
NextSessionFaulty ==
    \/ NextSession
    \/ \E truncated \in BOOLEAN : session_exit_storage_fails(truncated)

SpecSessionFaulty == Init /\ [][NextSessionFaulty]_vars

\* Dispatchers constructed over a file that was damaged since it was saved.
NextDamaged ==
    \/ register_incident("security", "low", Text(0, 5, 0))
    \/ save_data
    \/ garble_file
    \/ \E k \in 1..MaxIncidents : damage_record(k)
    \/ initialize_system

SpecDamaged == Init /\ [][NextDamaged]_vars

\* The statistics over incidents of two types and two priorities in every
\* status but escalated, and a registry with and without an added operator.
StatTypeInputs == {"security", "application"}
StatPriorityInputs == {"high", "low"}

NextStatistics ==
    \/ \E t \in StatTypeInputs, p \in StatPriorityInputs :
          register_incident(t, p, Text(0, 5, 0))
    \/ \E i \in IdInputs : assign_incident(i, "eva")
    \/ \E i \in IdInputs : resolve_incident(i)
    \/ add_operator(Name(0, "eva", 0), <<"security">>)
    \/ get_statistics

SpecStatistics == Init /\ [][NextStatistics]_vars

\* Calls that the business rules refuse: an operator added later who handles
\* one of the two types, and one who is never added.
RefusedOperatorInputs == {"eva", "nobody"}

NextRefusals ==
    \/ \E t \in StatTypeInputs : register_incident(t, "low", Text(0, 5, 0))
    \/ \E i \in IdInputs, n \in RefusedOperatorInputs : assign_incident(i, n)
    \/ \E i \in IdInputs : resolve_incident(i)
    \/ auto_escalate_incidents
    \/ add_operator(Name(0, "eva", 0), <<"security">>)
    \/ \E t \in CoarseInstants : tick(t)

SpecRefusals == Init /\ [][NextRefusals]_vars

\* An operator registered again under the same name with other roles, while
\* incidents are assigned.
ReplacedRolesInputs == {<<"security">>, <<"application">>}

NextReplace ==
    \/ register_incident("security", "low", Text(0, 5, 0))
    \/ \E i \in IdInputs : assign_incident(i, "eva")
    \/ \E i \in IdInputs : resolve_incident(i)
    \/ auto_escalate_incidents
    \/ \E roles \in ReplacedRolesInputs : add_operator(Name(0, "eva", 0), roles)

SpecReplace == Init /\ [][NextReplace]_vars

\* The presentation loop going on for ever: IncidentManagerCLI.run sweeps
\* with auto_escalate_incidents at the start of every cycle and then serves
\* one choice of the user, while the clock advances. The clock of the model
\* ends at its last instant, so an incident is registered only while an
\* instant more than the threshold ahead is left.
CycleInstants == {0, 31, 62}

NextCycle ==
    \/ /\ next_id < MaxIncidents
       /\ \E t \in CycleInstants : t > now + TimeThreshold
       /\ register_incident("security", "low", Text(0, 5, 0))
    \/ \E i \in IdInputs : assign_incident(i, "eva")
    \/ \E i \in IdInputs : resolve_incident(i)
    \/ add_operator(Name(0, "eva", 0), <<"security">>)
    \/ auto_escalate_incidents
    \/ \E t \in CycleInstants : tick(t)

\* Cycles keep occurring (each one starts with the sweep) and time keeps
\* advancing.
SpecCycle ==
    /\ Init
    /\ [][NextCycle]_vars
    /\ WF_vars(auto_escalate_incidents)
    /\ WF_vars(\E t \in CycleInstants : tick(t))

\* The backup directory over many saves: one registration input, saves at
\* enough instants for more backups than are kept.
BackupInstants == 0..7

NextBackups ==
    \/ register_incident("security", "low", Text(0, 5, 0))
    \/ save_data
    \/ \E t \in BackupInstants : tick(t)

SpecBackups == Init /\ [][NextBackups]_vars

(***************************************************************************)
(* Properties                                                              *)
(***************************************************************************)
QueueIds(queue) == {queue[k].id : k \in 1..Len(queue)}

LastEntry == history[Len(history)]

\* C1: assign_incident(id, op) returns True exactly when the incident exists,
\* is pending, op is a registered, available operator and the incident's type
\* is one of op's roles; then the incident becomes in_progress, assigned to
\* op, and is no longer in the pending queue.
C1_AssignContract ==
    [][\A i \in IdInputs, n \in OperatorInputs :
          assign_incident(i, n) =>
             LET pre == /\ i \in DOMAIN incidents
                        /\ incidents[i].status = "pending"
                        /\ n \in DOMAIN operators
                        /\ operators[n].available
                        /\ \E k \in 1..Len(operators[n].roles) :
                              operators[n].roles[k] = incidents[i].type
             IN /\ ret' \in {Returned(PyTrue), Returned(PyFalse)}
                /\ (ret' = Returned(PyTrue)) <=> pre
                /\ pre => /\ incidents'[i].status = "in_progress"
                          /\ incidents'[i].assigned_to = n
                          /\ i \notin QueueIds(pending_queue')]_vars

C1_Witness ==
    /\ ret = Returned(PyTrue)
    /\ history # <<>>
    /\ LastEntry.action = "assigned"
    /\ LastEntry.operator = "eva"
    /\ incidents[LastEntry.incident_id].status = "in_progress"
    /\ \E j \in DOMAIN incidents : incidents[j].type = "application"

\* C2: resolve_incident(id) returns True exactly when the incident exists and
\* is pending or in_progress; it never succeeds on a resolved or escalated
\* incident, whatever happened before.
C2_ResolveContract ==
    [][\A i \in IdInputs :
          resolve_incident(i) =>
             /\ ret' \in {Returned(PyTrue), Returned(PyFalse)}
             /\ (ret' = Returned(PyTrue)) <=>
                   /\ i \in DOMAIN incidents
                   /\ incidents[i].status \in {"pending", "in_progress"}
             /\ (i \in DOMAIN incidents
                    /\ incidents[i].status \in {"resolved", "escalated"})
                   => ret' = Returned(PyFalse)]_vars

C2_Witness ==
    /\ ret = Returned(PyTrue)
    /\ history # <<>>
    /\ LastEntry.action = "resolved"
    /\ incidents[LastEntry.incident_id].status = "resolved"
    /\ \E j \in DOMAIN incidents : incidents[j].status = "escalated"

\* C3: auto_escalate_incidents at time now escalates an incident exactly when
\* it is pending or in_progress and older than 30 minutes, or of high
\* priority and older than 15 minutes (strictly).
C3_EscalationRule ==
    [][auto_escalate_incidents =>
          \A i \in DOMAIN incidents :
             (incidents[i].status # "escalated" /\ incidents'[i].status = "escalated")
             <=> /\ incidents[i].status \in {"pending", "in_progress"}
                 /\ \/ now - incidents[i].created_at > 30
                    \/ /\ incidents[i].priority = "high"
                       /\ now - incidents[i].created_at > 15]_vars

C3_Witness ==
    /\ history # <<>>
    /\ LastEntry.action = "escalated"
    /\ ret = Returned(PyInt(1))
    /\ \E i \in DOMAIN incidents :
          /\ incidents[i].priority = "high"
          /\ now - incidents[i].created_at = 16
          /\ incidents[i].status = "escalated"
          /\ incidents[i].assigned_to = "eva"

\* C4: auto_escalate_incidents returns the number of incidents it turned to
\* escalated; each of them has left the pending queue and got exactly one
\* 'escalated' history entry, appended by the call; every other incident,
\* queue entry and history entry is as before.
C4_EscalationEffect ==
    [][auto_escalate_incidents =>
          LET hit == {i \in DOMAIN incidents :
                         /\ incidents[i].status # "escalated"
                         /\ incidents'[i].status = "escalated"}
              kept == {k \in 1..Len(pending_queue) : pending_queue[k].id \notin hit}
              added == (Len(history) + 1)..Len(history')
          IN /\ ret' = Returned(PyInt(Cardinality(hit)))
             /\ DOMAIN incidents' = DOMAIN incidents
             /\ \A i \in DOMAIN incidents \ hit : incidents'[i] = incidents[i]
             /\ \A i \in hit :
                   /\ incidents'[i] = [incidents[i] EXCEPT !.status = "escalated"]
                   /\ i \notin QueueIds(pending_queue')
                   /\ Cardinality({k \in added : history'[k].incident_id = i}) = 1
             /\ Len(pending_queue') = Cardinality(kept)
             /\ \A j, k \in kept :
                   j < k => \E a, b \in 1..Len(pending_queue') :
                               /\ a < b
                               /\ pending_queue'[a] = pending_queue[j]
                               /\ pending_queue'[b] = pending_queue[k]
             /\ \A k \in kept : \E a \in 1..Len(pending_queue') :
                   pending_queue'[a] = pending_queue[k]
             /\ Len(history') = Len(history) + Cardinality(hit)
             /\ \A k \in 1..Len(history) : history'[k] = history[k]
             /\ \A k \in added : /\ history'[k].action = "escalated"
                                 /\ history'[k].incident_id \in hit
             /\ UNCHANGED <<operators, next_id>>]_vars

C4_Witness ==
    /\ history # <<>>
    /\ LastEntry.action = "escalated"
    /\ ret = Returned(PyInt(1))
    /\ incidents[LastEntry.incident_id].status = "escalated"
    /\ Len(pending_queue) = 1
    /\ pending_queue[1].id # LastEntry.incident_id

\* C5: the ids returned by successful registrations of a dispatcher, also one
\* started from persisted incidents, are new to the table and strictly
\* increasing in call order, and next_id is above every id of the table.
StoredRegistration ==
    /\ \E p \in VALID_PRIORITIES : register_incident("security", p, Text(0, 5, 0))
    /\ ret'.value.kind = "int"

C5_FreshIncreasingIds ==
    /\ [](\A i \in DOMAIN incidents : i < next_id)
    /\ [][StoredRegistration =>
             /\ ret'.value.n = next_id
             /\ ret'.value.n \notin DOMAIN incidents
             /\ ret'.value.n \in DOMAIN incidents'
             /\ next_id' > next_id]_vars
    /\ [][~initialize_system => next_id' >= next_id]_vars

C5_Witness ==
    /\ file.exists
    /\ Len(file.incidents) = 1
    /\ history = <<Entry("created", 2, NoneVal)>>
    /\ ret = Returned(PyInt(2))
    /\ DOMAIN incidents = {1, 2}

\* C6: a successful register_incident creates the incident with id next_id,
\* status pending and no assignee, puts it in the table and in the pending
\* queue, appends one 'created' history entry for it, adds 1 to next_id and
\* returns the id.
C6_RegisterEffect ==
    [][\A t \in RegTypeInputs, p \in RegPriorityInputs, d \in RegDescriptionInputs :
          (ret'.value.kind = "int" /\ register_incident(t, p, d)) =>
             /\ ret' = Returned(PyInt(next_id))
             /\ next_id \notin DOMAIN incidents
             /\ DOMAIN incidents' = DOMAIN incidents \cup {next_id}
             /\ \A i \in DOMAIN incidents : incidents'[i] = incidents[i]
             /\ incidents'[next_id].id = next_id
             /\ incidents'[next_id].type = t
             /\ incidents'[next_id].priority = p
             /\ incidents'[next_id].status = "pending"
             /\ incidents'[next_id].assigned_to = NoneVal
             /\ Len(pending_queue') = Len(pending_queue) + 1
             /\ Cardinality({k \in 1..Len(pending_queue') :
                                pending_queue'[k] = incidents'[next_id]}) = 1
             /\ \A k \in 1..Len(pending_queue) :
                   \E a \in 1..Len(pending_queue') : pending_queue'[a] = pending_queue[k]
             /\ history' = Append(history, Entry("created", next_id, NoneVal))
             /\ next_id' = next_id + 1]_vars

C6_Witness ==
    /\ ret = Returned(PyInt(2))
    /\ next_id = 3
    /\ Len(pending_queue) = 2
    /\ Len(history) = 2
    /\ LastEntry = Entry("created", 2, NoneVal)
    /\ incidents[2].status = "pending"

\* What the data model asks of the three arguments.
TypeValid(t) == t \in {"infrastructure", "security", "application"}
PriorityValid(p) == p \in {"high", "medium", "low"}
DescriptionValid(d) == 5 <= d.core /\ d.core <= 500

InvalidFields(t, p, d) ==
    (IF TypeValid(t) THEN 0 ELSE 1) + (IF PriorityValid(p) THEN 0 ELSE 1)
    + (IF DescriptionValid(d) THEN 0 ELSE 1)

\* C7: register_incident with an invalid type, priority or description raises
\* a validation error to its caller that carries one message per violated
\* field, for every combination of invalid fields.
C7_RaisesAllViolations ==
    [][\A t \in RegTypeInputs, p \in RegPriorityInputs, d \in RegDescriptionInputs :
          (InvalidFields(t, p, d) > 0 /\ register_incident(t, p, d)) =>
             /\ ret'.outcome = "raised"
             /\ Len(ret'.errors) = InvalidFields(t, p, d)]_vars

\* C8: a register_incident call that fails validation, raising or returning
\* no id, leaves the table, the queue, the history, the operators and
\* next_id as they were.
C8_FailedRegisterNoEffect ==
    [][\/ /\ ret'.outcome = "raised" \/ ret' = Returned(PyNone)
          /\ UNCHANGED <<incidents, pending_queue, history, operators, next_id>>
       \/ \A t \in RegTypeInputs, p \in RegPriorityInputs, d \in RegDescriptionInputs :
             ~(InvalidFields(t, p, d) > 0 /\ register_incident(t, p, d))]_vars

C8_Witness ==
    /\ ret.outcome = "raised"
    /\ DOMAIN incidents = {1}
    /\ Len(pending_queue) = 1
    /\ Len(history) = 1
    /\ next_id = 2

\* C9: with a valid type and priority, register_incident accepts a
\* description exactly when its trimmed length is between 5 and 500: 5 and
\* 500 create an incident, 4 and 501 create none.
C9_DescriptionBounds ==
    [][\A t \in RegTypeInputs, p \in RegPriorityInputs, d \in RegDescriptionInputs :
          (TypeValid(t) /\ PriorityValid(p) /\ register_incident(t, p, d)) =>
             /\ (5 <= d.core /\ d.core <= 500)
                   <=> /\ ret' = Returned(PyInt(next_id))
                       /\ DOMAIN incidents' = DOMAIN incidents \cup {next_id}
                       /\ next_id \notin DOMAIN incidents
             /\ ~(5 <= d.core /\ d.core <= 500)
                   => /\ ret'.value.kind # "int"
                      /\ incidents' = incidents]_vars

C9_Witness ==
    /\ DOMAIN incidents = {1, 2}
    /\ incidents[1].description.core = 5
    /\ incidents[2].description.core = 500
    /\ ret = Returned(PyInt(2))

\* C10: in the list get_pending_incidents returns, every incident of high
\* priority comes before every incident of medium or low priority.
C10_HighFirst ==
    LET pending == get_pending_incidents(pending_queue)
    IN \A j, k \in 1..Len(pending) :
          (pending[j].priority = "high" /\ pending[k].priority \in {"medium", "low"})
             => j < k

C10_Witness ==
    LET pending == get_pending_incidents(pending_queue)
    IN /\ Len(pending) = 2
       /\ pending[1].priority = "high"
       /\ pending[2].priority \in {"medium", "low"}
       /\ pending[1].id > pending[2].id

\* The two tiers of the pending queue.
Tier(incident) == IF incident.priority = "high" THEN "high" ELSE "other"

\* C11: within each tier of the pending queue (high, and medium/low), the
\* incidents of get_pending_incidents are in the order of their registration,
\* first registered first; ids are handed out in registration order.
C11_TierFifo ==
    LET pending == get_pending_incidents(pending_queue)
    IN \A j, k \in 1..Len(pending) :
          (j < k /\ Tier(pending[j]) = Tier(pending[k]))
             => pending[j].id < pending[k].id

\* C12: an incident's assigned_to is set only while its status is
\* in_progress: pending, resolved and escalated incidents have no assignee.
C12_AssigneeOnlyInProgress ==
    \A i \in DOMAIN incidents :
       incidents[i].assigned_to # NoneVal => incidents[i].status = "in_progress"

\* The status changes an incident may go through.
StatusMoves ==
    {<<"pending", "in_progress">>, <<"pending", "resolved">>,
     <<"in_progress", "resolved">>, <<"pending", "escalated">>,
     <<"in_progress", "escalated">>}

\* C13: over the operations of a dispatcher an incident stays in the table
\* and its status changes only along pending->in_progress, pending->resolved,
\* in_progress->resolved, pending->escalated and in_progress->escalated: it
\* never returns to pending, and resolved and escalated are final.
C13_StatusMoves ==
    [][/\ DOMAIN incidents \subseteq DOMAIN incidents'
       /\ \A i \in DOMAIN incidents :
             \/ incidents'[i].status = incidents[i].status
             \/ <<incidents[i].status, incidents'[i].status>> \in StatusMoves]_vars

C13_Witness ==
    /\ DOMAIN incidents = {1, 2}
    /\ incidents[1].status = "escalated"
    /\ incidents[1].assigned_to = "eva"
    /\ incidents[2].status = "resolved"
    /\ \E k \in 1..Len(history) : history[k] = Entry("assigned", 2, "eva")
    /\ ret = Returned(PyFalse)

\* C14: the pending queue holds exactly the incidents whose status in the
\* table is pending, each once, and every queue entry equals the table's
\* value for its id; also right after the persisted records are loaded.
C14_QueueMirrorsTable ==
    /\ \A k \in 1..Len(pending_queue) :
          /\ pending_queue[k].id \in DOMAIN incidents
          /\ pending_queue[k] = incidents[pending_queue[k].id]
          /\ pending_queue[k].status = "pending"
    /\ \A i \in DOMAIN incidents :
          incidents[i].status = "pending"
             => Cardinality({k \in 1..Len(pending_queue) : pending_queue[k].id = i}) = 1
    /\ \A j, k \in 1..Len(pending_queue) :
          pending_queue[j].id = pending_queue[k].id => j = k

\* A dispatcher loaded from a file that holds a pending and an assigned
\* incident.
C14_Witness ==
    /\ history = <<>>
    /\ DOMAIN incidents = {1, 2}
    /\ incidents[1].status = "in_progress"
    /\ incidents[2].status = "pending"
    /\ Len(pending_queue) = 1
    /\ pending_queue[1] = incidents[2]

\* Every incident of the table was created within the last 30 days.
AllRecent ==
    \A i \in DOMAIN incidents : now - incidents[i].created_at <= 30 * 24 * 60

\* C15: when every incident was created within the last 30 days,
\* search_incidents(incident_type=T, status=S), the rest at its default,
\* returns exactly the incidents of type T that have status S, for every
\* type T and status S.
C15_SearchIsIntersection ==
    [][\A T \in VALID_TYPES, S \in Statuses :
          (AllRecent /\ search_incidents("", T, "", S, DefaultDaysBack)) =>
             /\ SeqRange(ret'.value.items) =
                   {incidents[i] : i \in {j \in DOMAIN incidents :
                                            /\ incidents[j].type = T
                                            /\ incidents[j].status = S}}
             /\ Len(ret'.value.items) = Cardinality(SeqRange(ret'.value.items))]_vars

\* C16: search_incidents with text, type, operator and status empty returns
\* every incident created within the last days_back days when days_back > 0,
\* and every incident of the table when days_back <= 0.
C16_EmptyCriteria ==
    [][\A d \in DaysBackInputs :
          search_incidents("", "", "", "", d) =>
             SeqRange(ret'.value.items) =
                {incidents[i] : i \in {j \in DOMAIN incidents :
                                         \/ d <= 0
                                         \/ now - incidents[j].created_at
                                               <= d * 24 * 60}}]_vars

\* C17: get_history(limit), limit >= 0, returns the last min(limit, n) of the
\* n history entries, oldest first; limit = 0 returns none.
C17_HistorySuffix ==
    [][\A limit \in LimitInputs :
          get_history(limit) =>
             LET n == Len(history)
                 m == IF limit < n THEN limit ELSE n
             IN ret'.value.items = [k \in 1..m |-> history[n - m + k]]]_vars

\* C18: the history is append-only: over every operation, successful or
\* failed, the history before it is a prefix of the history after it.
C18_HistoryAppendOnly ==
    [][/\ Len(history') >= Len(history)
       /\ \A k \in 1..Len(history) : history'[k] = history[k]]_vars

C18_Witness ==
    /\ Len(history) = 4
    /\ history[1].action = "created"
    /\ history[3].action = "escalated"
    /\ history[4].action = "resolved"
    /\ ret = Returned(PyFalse)

\* A name of 2 to 50 letters, digits or blanks once trimmed.
NameValid(name) ==
    /\ WordCharsOk[name.word]
    /\ 2 <= WordLength[name.word]
    /\ WordLength[name.word] <= 50

\* C19: add_operator(name, roles) returns False and leaves the registry as it
\* was when the name is invalid or roles is empty; otherwise it registers the
\* operator under the trimmed name with the given roles, available. So every
\* operator of the registry has at least one role.
C19_AddOperatorContract ==
    /\ [](\A n \in DOMAIN operators : operators[n].roles # <<>>)
    /\ [][\A name \in OpNameInputs, roles \in OpRolesInputs :
             add_operator(name, roles) =>
                IF ~NameValid(name) \/ roles = <<>>
                THEN /\ ret' = Returned(PyFalse)
                     /\ operators' = operators
                ELSE /\ ret' = Returned(PyTrue)
                     /\ DOMAIN operators' = DOMAIN operators \cup {name.word}
                     /\ operators'[name.word] = Operator(name.word, roles, TRUE)
                     /\ \A n \in DOMAIN operators \ {name.word} :
                           operators'[n] = operators[n]]_vars

\* C20: every exit from an incident_session scope, normal or by an error
\* raised inside it, calls the storage save exactly once, with the records of
\* all incidents of the table at that moment, before the scope is released;
\* an error raised inside the scope reaches the caller after that flush.
C20_SessionFlush ==
    [][(session.open /\ ~session'.open) =>
          /\ session.saves = 0
          /\ session'.saves = 1
          /\ file'.exists
          /\ Len(file'.incidents) = Cardinality(DOMAIN incidents)
          /\ \A i \in DOMAIN incidents :
                \E k \in 1..Len(file'.incidents) :
                   file'.incidents[k] = to_dict(incidents[i])
          /\ (ret.outcome = "raised") => ret' = ret
          /\ (ret.outcome # "raised") => ret'.outcome = "returned"
          /\ UNCHANGED <<incidents, pending_queue, operators, history, next_id>>]_vars

\* A scope left by the error of a call made after a registration inside it.
C20_Witness ==
    /\ ~session.open
    /\ session.saves = 1
    /\ ret = Raised(<<MsgTypeInput>>)
    /\ file.exists
    /\ Len(file.incidents) = 2
    /\ incidents[1].status = "resolved"
    /\ file.incidents[1].status = "resolved"

\* The error save_incidents raises when it cannot write the file.
MsgStorage == "Error guardando incidentes"

\* C21: when the storage save fails during the flush of an incident_session,
\* the failure is raised out of the scope to the code that opened it.
C21_SaveFailurePropagates ==
    [][\A truncated \in BOOLEAN :
          (/\ session_exit_storage_fails(truncated)
           /\ file' # save_incidents(incidents_data(incidents))) =>
             /\ ret'.outcome = "raised"
             /\ MsgStorage \in SeqRange(ret'.errors)]_vars

\* Loading the file fails: it cannot be read, or one of its records cannot
\* be converted to an Incident.
LoadFails ==
    /\ file.exists
    /\ \/ ~file.valid
       \/ \E k \in 1..Len(file.incidents) : file.incidents[k].created_at = <<>>

\* C22: when loading the persisted data fails while a dispatcher is
\* constructed, no exception reaches the caller and the dispatcher starts
\* empty: no incident, empty pending queue, next_id = 1, default operators.
C22_LoadFailureStartsEmpty ==
    [][(LoadFails /\ initialize_system) =>
          /\ ret'.outcome = "returned"
          /\ incidents' = EmptyTable
          /\ pending_queue' = <<>>
          /\ next_id' = 1
          /\ operators' = DefaultOperators]_vars

NumberOf(P(_)) == Cardinality({i \in DOMAIN incidents : P(incidents[i])})

StatCount(stats, key) == IF key \in DOMAIN stats THEN stats[key] ELSE 0

\* What get_statistics reports besides total: the counts by status, priority
\* and type, 0 for an absent key, and the two operator counts.
CountsRight(stats) ==
    /\ \A s \in Statuses :
          StatCount(stats, <<"status", s>>) = NumberOf(LAMBDA inc : inc.status = s)
    /\ \A p \in VALID_PRIORITIES :
          StatCount(stats, <<"priority", p>>) = NumberOf(LAMBDA inc : inc.priority = p)
    /\ \A t \in VALID_TYPES :
          StatCount(stats, <<"type", t>>) = NumberOf(LAMBDA inc : inc.type = t)
    /\ StatCount(stats, <<"status", "pending">>)
          + StatCount(stats, <<"status", "in_progress">>)
          + StatCount(stats, <<"status", "resolved">>)
          + StatCount(stats, <<"status", "escalated">>)
          = Cardinality(DOMAIN incidents)
    /\ <<"operators", "total">> \in DOMAIN stats
    /\ stats[<<"operators", "total">>] = Cardinality(DOMAIN operators)
    /\ <<"operators", "available">> \in DOMAIN stats
    /\ stats[<<"operators", "available">>]
          = Cardinality({n \in DOMAIN operators : operators[n].available})

\* C24 as stated: get_statistics reports total, equal to the number of
\* incidents of the table; the counts by status, priority and type (0 when
\* the key is absent) are the numbers of incidents with that value and the
\* status counts sum to total; operators_total and operators_available are
\* the registry's size and its number of available operators.
C24_StatisticsAsStated ==
    [][get_statistics =>
          /\ <<"total", "">> \in DOMAIN ret'.value.items
          /\ ret'.value.items[<<"total", "">>] = Cardinality(DOMAIN incidents)
          /\ CountsRight(ret'.value.items)]_vars

\* C24, amended: as above, with total too taken as 0 when its key is absent
\* (get_statistics on an empty table reports no total).
C24_StatisticsAbsentIsZero ==
    [][get_statistics =>
          /\ StatCount(ret'.value.items, <<"total", "">>) = Cardinality(DOMAIN incidents)
          /\ (<<"total", "">> \in DOMAIN ret'.value.items) <=> incidents # EmptyTable
          /\ CountsRight(ret'.value.items)]_vars

C24_Witness ==
    /\ ret.value.kind = "dict"
    /\ ret = Returned(PyDict(ret.value.items))
    /\ StatCount(ret.value.items, <<"total", "">>) = 2
    /\ StatCount(ret.value.items, <<"status", "resolved">>) = 1
    /\ StatCount(ret.value.items, <<"status", "in_progress">>) = 1
    /\ StatCount(ret.value.items, <<"priority", "medium">>) = 0
    /\ StatCount(ret.value.items, <<"operators", "total">>) = 6

\* The business rules of the two calls.
AssignAllowed(i, n) ==
    /\ i \in DOMAIN incidents
    /\ incidents[i].status = "pending"
    /\ n \in DOMAIN operators
    /\ operators[n].available
    /\ \E k \in 1..Len(operators[n].roles) : operators[n].roles[k] = incidents[i].type

ResolveAllowed(i) ==
    /\ i \in DOMAIN incidents
    /\ incidents[i].status \in {"pending", "in_progress"}

\* C25: assign_incident and resolve_incident never raise; a call that breaks
\* a business rule (unknown incident, unknown operator, wrong status,
\* unavailable operator, missing role) returns False and leaves the table,
\* the queue, the registry, the history and next_id as they were.
C25_RefusalsReturnFalse ==
    [][/\ \A i \in IdInputs, n \in RefusedOperatorInputs :
             assign_incident(i, n) =>
                /\ ret'.outcome = "returned"
                /\ ~AssignAllowed(i, n) =>
                      /\ ret' = Returned(PyFalse)
                      /\ UNCHANGED <<incidents, pending_queue, operators,
                                     history, next_id>>
       /\ \A i \in IdInputs :
             resolve_incident(i) =>
                /\ ret'.outcome = "returned"
                /\ ~ResolveAllowed(i) =>
                      /\ ret' = Returned(PyFalse)
                      /\ UNCHANGED <<incidents, pending_queue, operators,
                                     history, next_id>>]_vars

\* A call refused while one incident is assigned and one is pending.
C25_Witness ==
    /\ ret = Returned(PyFalse)
    /\ Len(history) = 3
    /\ LastEntry.action = "assigned"
    /\ Len(pending_queue) = 1
    /\ pending_queue[1].type = "application"

\* The time stamps of the backups in a directory.
names(backup_files) == {backup_files[k].name : k \in 1..Len(backup_files)}

\* The k latest of a set of time stamps (all of them when there are fewer).
Latest(S, k) ==
    CHOOSE T \in SUBSET S :
        /\ Cardinality(T) = IF Cardinality(S) < k THEN Cardinality(S) ELSE k
        /\ \A x \in T, y \in S \ T : x > y

\* C26: after any sequence of saves the backup directory holds at most 5
\* backups, and they are the most recently created ones: a save over an
\* existing file leaves the 5 latest of the old backups and the new one, a
\* save that creates the file leaves the directory alone.
C26_KeepsLatestBackups ==
    [][save_data =>
         /\ Len(backups') <= 5
         /\ Cardinality(names(backups')) = Len(backups')
         /\ file.exists => names(backups') = Latest(names(backups) \cup {now}, 5)
         /\ ~file.exists => backups' = backups]_vars

\* A full directory from which the backups of the first two instants are gone.
C26_Witness ==
    /\ Len(backups) = 5
    /\ \A k \in 1..Len(backups) : backups[k].name >= 3
    /\ Len(file.incidents) = 1

\* The operator holds a role the default rules permit for the incident's type.
HoldsPermittedRole(i, n) ==
    /\ incidents[i].type \in DOMAIN get_default_rules
    /\ \E k \in 1..Len(operators[n].roles) :
          operators[n].roles[k] \in get_default_rules[incidents[i].type]

\* C27: with the default rules and the default operators, assign_incident
\* succeeds for a pending incident and an available operator whenever the
\* operator holds a role the default rules permit for the incident's type,
\* and takes the incident to in_progress.
C27_PermittedRoleAssigns ==
    [][\A i \in IdInputs, n \in OperatorInputs :
          ( /\ assign_incident(i, n)
            /\ i \in DOMAIN incidents
            /\ incidents[i].status = "pending"
            /\ n \in DOMAIN operators
            /\ operators[n].available
            /\ HoldsPermittedRole(i, n) )
          => /\ ret' = Returned(PyTrue)
             /\ incidents'[i].status = "in_progress"]_vars

\* C28: across every operation an incident keeps the id, type, priority,
\* description and created_at it was registered with; assigned_to changes
\* only in the assign_incident call for that incident, to its operator.
C28_RegisteredFieldsKept ==
    [][\A i \in DOMAIN incidents :
          /\ i \in DOMAIN incidents'
          /\ incidents'[i].id = incidents[i].id
          /\ incidents'[i].type = incidents[i].type
          /\ incidents'[i].priority = incidents[i].priority
          /\ incidents'[i].description = incidents[i].description
          /\ incidents'[i].created_at = incidents[i].created_at
          /\ incidents'[i].assigned_to # incidents[i].assigned_to =>
                \E n \in OperatorInputs :
                   /\ assign_incident(i, n)
                   /\ incidents'[i].assigned_to = n]_vars

\* An incident registered at 0 that was assigned and then resolved later.
C28_Witness ==
    /\ 1 \in DOMAIN incidents
    /\ incidents[1] = Incident(1, "security", "low", strip(Text(1, 5, 0)), 0,
                               "eva", "resolved")
    /\ now = 31
    /\ ret = Returned(PyTrue)

\* C29: validate_all_incident_data returns one message for each of the three
\* fields that breaks its constraint and none for the others: the type
\* message iff the type is invalid, the priority message iff the priority is,
\* the description message iff the description is, and nothing else, so the
\* list is empty iff all three are valid and has length k for k invalid fields.
C29_OneMessagePerInvalidField ==
    [][\A t \in ValTypeInputs, p \in ValPriorityInputs, d \in ValDescriptionInputs :
          validate_all(t, p, d) =>
             LET errors == ret'.value.items IN
             /\ ret'.outcome = "returned"
             /\ ret'.value.kind = "list"
             /\ Len(errors) = InvalidFields(t, p, d)
             /\ (MsgType \in SeqRange(errors)) <=> ~TypeValid(t)
             /\ (MsgPriority \in SeqRange(errors)) <=> ~PriorityValid(p)
             /\ (MsgDescription \in SeqRange(errors)) <=> ~DescriptionValid(d)
             /\ (errors = <<>>) <=>
                   (TypeValid(t) /\ PriorityValid(p) /\ DescriptionValid(d))]_vars

\* The validator has reported all three fields, after a registration.
C29_Witness ==
    /\ ret = Returned(PyList(<<MsgType, MsgPriority, MsgDescription>>))
    /\ next_id = 2

\* The positions of the history entries of one action on one incident.
EntriesAt(i, action) ==
    {k \in 1..Len(history) :
        history[k].incident_id = i /\ history[k].action = action}

\* C30: for every incident registered in this dispatcher the history holds
\* exactly one 'created' entry, before every other entry of the incident; at
\* most one 'assigned', one 'resolved' and one 'escalated' entry, never both
\* 'resolved' and 'escalated'; and an 'assigned' entry comes before the
\* 'resolved' or 'escalated' one.
C30_HistoryOfAnIncident ==
    \A i \in DOMAIN incidents :
       LET closing == EntriesAt(i, "resolved") \cup EntriesAt(i, "escalated") IN
       /\ Cardinality(EntriesAt(i, "created")) = 1
       /\ \A k \in 1..Len(history) :
             history[k].incident_id = i =>
                \E c \in EntriesAt(i, "created") : c <= k
       /\ Cardinality(EntriesAt(i, "assigned")) <= 1
       /\ Cardinality(EntriesAt(i, "resolved")) <= 1
       /\ Cardinality(EntriesAt(i, "escalated")) <= 1
       /\ Cardinality(closing) <= 1
       /\ \A a \in EntriesAt(i, "assigned"), c \in closing : a < c

\* One incident created, assigned and then escalated by the scan.
C30_Witness ==
    /\ Len(history) = 3
    /\ EntriesAt(1, "created") = {1}
    /\ EntriesAt(1, "assigned") = {2}
    /\ EntriesAt(1, "escalated") = {3}
    /\ ret = Returned(PyInt(1))

\* C31: after any sequence of register, assign, resolve, auto-escalate and
\* add_operator calls, every in_progress incident is assigned to an operator
\* of the registry whose roles include the incident's type.
C31_AssigneeHandlesType ==
    \A i \in DOMAIN incidents :
       incidents[i].status = "in_progress" =>
          /\ incidents[i].assigned_to \in DOMAIN operators
          /\ incidents[i].type
                \in SeqRange(operators[incidents[i].assigned_to].roles)

\* The file holds the table as the dispatcher has it: nothing has changed
\* since the flush.
Flushed ==
    /\ file.exists
    /\ file.valid
    /\ file.incidents = incidents_data(incidents)

\* C32: a dispatcher constructed over the storage a dispatcher flushed its
\* table to has the incident table, the pending queue, in the same order,
\* and the next_id that dispatcher had at the flush.
C32_RestartRestores ==
    [][(Flushed /\ initialize_system) =>
          /\ incidents' = incidents
          /\ pending_queue' = pending_queue
          /\ next_id' = next_id]_vars

\* A new dispatcher over a file with two pending high incidents and nothing
\* else: the later one is first in its queue.
C32_Witness ==
    /\ history = <<>>
    /\ Flushed
    /\ next_id = 3
    /\ Len(pending_queue) = 2
    /\ pending_queue[1].id = 2
    /\ pending_queue[1].priority = "high"
    /\ pending_queue[2].priority = "high"
    /\ ret = Returned(PyNone)

\* The in_progress incidents an operator holds.
HeldBy(n) ==
    {i \in DOMAIN incidents :
        incidents[i].status = "in_progress" /\ incidents[i].assigned_to = n}

\* C33: register_incident, assign_incident, resolve_incident and
\* auto_escalate_incidents leave the operator registry as it was (a step
\* that changes the registry is none of these calls), and an operator who
\* already holds in_progress incidents is assigned a further one it may take.
C33_RegistryUntouched ==
    [][/\ \/ operators' = operators
          \/ /\ \A t \in StatTypeInputs : ~register_incident(t, "low", Text(0, 5, 0))
             /\ \A i \in IdInputs, n \in RefusedOperatorInputs : ~assign_incident(i, n)
             /\ \A i \in IdInputs : ~resolve_incident(i)
             /\ ~auto_escalate_incidents
       /\ \A i \in IdInputs, n \in RefusedOperatorInputs :
             (AssignAllowed(i, n) /\ HeldBy(n) # {} /\ assign_incident(i, n)) =>
                /\ ret' = Returned(PyTrue)
                /\ HeldBy(n)' = HeldBy(n) \cup {i}
                /\ operators'[n].available]_vars

\* An available operator holds two incidents at once.
C33_Witness ==
    /\ "eva" \in DOMAIN operators
    /\ operators["eva"].available
    /\ HeldBy("eva") = {1, 2}
    /\ ret = Returned(PyTrue)

\* The incident is registered and resolved or escalated.
Closed(i) ==
    /\ i \in DOMAIN incidents
    /\ incidents[i].status \in {"resolved", "escalated"}

\* C34: with the sweep run in every cycle of the presentation loop, cycles
\* going on and time advancing, every registered incident is eventually
\* resolved or escalated and stays so, whatever the user does.
\* (An incident stays in the table once registered, so "from some moment on
\* it is closed if registered" says that it closes after its registration.)
C34_EveryIncidentCloses ==
    \A i \in 1..MaxIncidents :
       <>[](i \in DOMAIN incidents => Closed(i))

\* An incident registered at minute 31 and assigned was escalated by the
\* sweep of a later cycle.
C34_Witness ==
    /\ now = 62
    /\ \E i \in DOMAIN incidents :
          /\ incidents[i].created_at = 31
          /\ incidents[i].assigned_to = "eva"
          /\ incidents[i].status = "escalated"
    /\ ret = Returned(PyInt(1))

====
